---- MODULE Spec2Model ----
(***************************************************************************)
(* recurrentshop/engine.py: RecurrentContainer, a recurrent layer made of  *)
(* an ordered list of sub-units (RNNCells and plain layers).               *)
(*                                                                         *)
(* Tensors are modelled as uniformly filled arrays: a shape, the fill      *)
(* value, and a provenance tag `by` (the 1-based position of the sub-unit  *)
(* that produced the tensor, 0 for the caller's input).  The tag is        *)
(* instrumentation: no modelled code reads it.                             *)
(***************************************************************************)
EXTENDS Integers, Sequences, FiniteSets, TLC

\* ---------------------------------------------------------------- bounds
MaxLayers == 2      \* longest sub-unit list
MaxT == 3           \* longest input sequence
MaxCalls == 2       \* forward calls per behaviour
Batch == 2          \* the concrete batch size of the inputs
MaxWs == 2          \* longest parameter list assigned to a Cell

\* ------------------------------------------------------- program constants
MinusOne == -1      \* the -1 sentinel of a state shape (batch size)
BatchSizeS == -2    \* stands for the string 'batch_size' in a state shape
InputLengthS == -3  \* stands for the string 'input_length' in a state shape
NoneDim == -9       \* stands for None: an unresolved dimension
NoOutputDim == 0    \* the Cell has no attribute output_dim
NoRegularizer == 0  \* regularizer=None of a weight

\* self.states before any reset_states: the attribute does not exist
Unset == [set |-> FALSE, v |-> <<>>]
\* self.input_spec = None, as the base Layer leaves it
NoSpec == <<>>

\* ----------------------------------------------------------------- data
Tensor(shape, val, by) == [shape |-> shape, val |-> val, by |-> by]

\* A state specification of a Cell (an entry of layer.states).
TupleSpec(shape) == [type |-> "tuple", shape |-> shape, val |-> 0, n |-> 1]
ListSpec(shape) == [type |-> "list", shape |-> shape, val |-> 0, n |-> 1]
NumpySpec(shape, val) == [type |-> "numpy", shape |-> shape, val |-> val, n |-> 1]
\* a callable: lambda x: x (n = 0), or lambda x: [x] * n
CallableSpec(n) == [type |-> "callable", shape |-> <<>>, val |-> 0, n |-> n]
TensorSpec(shape, val) == [type |-> "tensor", shape |-> shape, val |-> val, n |-> 1]

Plain(fn) == [rnn |-> FALSE, fn |-> fn, states |-> <<>>, output_dim |-> NoOutputDim]
Cell(fn, states) == [rnn |-> TRUE, fn |-> fn, states |-> states, output_dim |-> NoOutputDim]
\* A Cell that declares an output width (self.output_dim).
WideCell(fn, states, output_dim) ==
  [rnn |-> TRUE, fn |-> fn, states |-> states, output_dim |-> output_dim]
\* A sub-unit in the list: the unit and its layer.input_spec[0].shape.
Layer(u, shape) ==
  [rnn |-> u.rnn, fn |-> u.fn, states |-> u.states, output_dim |-> u.output_dim,
   shape |-> shape]

\* The sub-units a caller may add.
Units ==
  { Plain("inc"),
    Cell("acc", <<TupleSpec(<<MinusOne, 1>>)>>),
    Cell("acc", <<NumpySpec(<<Batch, 1>>, 1)>>),
    Cell("acc2", <<TupleSpec(<<BatchSizeS, 1>>), TupleSpec(<<InputLengthS, 1>>)>>),
    WideCell("acc", <<CallableSpec(0)>>, 2),
    Cell("acc", <<CallableSpec(2)>>),
    Cell("echo", <<TensorSpec(<<Batch, 1>>, 1)>>),
    Cell("acc", <<ListSpec(<<Batch, 1>>)>>) }

\* Python's s[a:b] and s[a:] on a list (0-based, clamped).
Min(a, b) == IF a < b THEN a ELSE b
Slice(s, a, b) == SubSeq(s, Min(a, Len(s)) + 1, Min(b, Len(s)))
SliceFrom(s, a) == SubSeq(s, Min(a, Len(s)) + 1, Len(s))
\* Python's s[a:b] = new
SliceAssign(s, a, b, new) == Slice(s, 0, a) \o new \o SliceFrom(s, IF b < a THEN a ELSE b)

_isRNN(layer) == layer.rnn

\* RNNCell.get_output_shape_for(input_shape)
get_output_shape_for(layer, input_shape) ==
  IF layer.output_dim # NoOutputDim
  THEN SubSeq(input_shape, 1, Len(input_shape) - 1) \o <<layer.output_dim>>
  ELSE input_shape

\* The output shape of a sub-unit built on layer.shape; the plain layers of
\* the model keep the shape of their input.
layer_output_shape(layer) ==
  IF _isRNN(layer) THEN get_output_shape_for(layer, layer.shape) ELSE layer.shape

\* ------------------------------------------------------------ sub-units
\* A plain layer's call(x).
layer_call(layer, i, x) ==
  IF layer.fn = "inc" THEN Tensor(x.shape, x.val + 1, i) ELSE Tensor(x.shape, x.val, i)

\* The number of states a Cell's step function reads.
Arity(layer) == IF layer.fn = "acc2" THEN 2 ELSE IF layer.fn = "echo" THEN 0 ELSE 1

\* A Cell's step(x, states): [ok, x, states].  ok = FALSE: the step raised
\* (it indexed a state the slice does not hold).
\*   acc : h' = h + x, output h'
\*   acc2: h' = h + x, c' = c + h, output h'
\*   echo: state' = x, output x (the state is not read)
cell_step(layer, i, x, st) ==
  IF Len(st) < Arity(layer) THEN [ok |-> FALSE, x |-> x, states |-> <<>>]
  ELSE IF layer.fn = "acc" THEN
    [ok |-> TRUE, x |-> Tensor(get_output_shape_for(layer, x.shape), st[1].val + x.val, i),
     states |-> <<Tensor(st[1].shape, st[1].val + x.val, i)>>]
  ELSE IF layer.fn = "acc2" THEN
    [ok |-> TRUE, x |-> Tensor(get_output_shape_for(layer, x.shape), st[1].val + x.val, i),
     states |-> <<Tensor(st[1].shape, st[1].val + x.val, i),
                  Tensor(st[2].shape, st[2].val + st[1].val, i)>>]
  ELSE
    [ok |-> TRUE, x |-> Tensor(x.shape, x.val, i),
     states |-> <<Tensor(x.shape, x.val, i)>>]

\* RNNCell._step: the dispatch into the Cell's step.
RNNCell_step(layer, i, x, st) == cell_step(layer, i, x, st)

\* -------------------------------------------------------- composite step
\* (mutant of step_assign: state_index is not advanced past a Cell)
step_assign_no_advance(i, acc, k, sl, r) ==
  IF ~r.ok THEN [acc EXCEPT !.ok = FALSE]
  ELSE LET after == SliceAssign(acc.states, acc.state_index, acc.state_index + k, r.states)
       IN [ok |-> TRUE, x |-> r.x, states |-> after,
           state_index |-> acc.state_index,
           trace |-> Append(acc.trace,
              [i |-> i, in |-> acc.x, off |-> acc.state_index, slice |-> sl,
               new |-> r.states, out |-> r.x, before |-> acc.states, after |-> after])]

\* step, lines 163-164: the k declared positions from state_index on are
\* assigned what the Cell returned (r = [ok, x, states]) and state_index
\* advances by k; sl is the slice the Cell was given.
step_assign(i, acc, k, sl, r) ==
  IF ~r.ok THEN [acc EXCEPT !.ok = FALSE]
  ELSE LET after == SliceAssign(acc.states, acc.state_index, acc.state_index + k, r.states)
       IN [ok |-> TRUE, x |-> r.x, states |-> after,
           state_index |-> acc.state_index + k,
           trace |-> Append(acc.trace,
              [i |-> i, in |-> acc.x, off |-> acc.state_index, slice |-> sl,
               new |-> r.states, out |-> r.x, before |-> acc.states, after |-> after])]

\* step, lines 161-164: a Cell is stepped on the slice sl of the vector.
step_cell(layer, i, acc, sl) ==
  step_assign(i, acc, Len(layer.states), sl, RNNCell_step(layer, i, acc.x, sl))

\* step, line 166: a plain layer gave y; the vector is left alone.
step_plain(i, acc, y) ==
  [acc EXCEPT !.x = y,
     !.trace = Append(acc.trace,
           [i |-> i, in |-> acc.x, off |-> acc.state_index, slice |-> <<>>,
            new |-> <<>>, out |-> y, before |-> acc.states, after |-> acc.states])]

\* One iteration of the loop of RecurrentContainer.step, for sub-unit i.
\* acc = [ok, x, states, state_index, trace]; trace records, per sub-unit,
\* what it was given and what came back.
step_layer(layer, i, acc) ==
  IF _isRNN(layer)
  THEN step_cell(layer, i, acc,
         Slice(acc.states, acc.state_index, acc.state_index + Len(layer.states)))
  ELSE step_plain(i, acc, layer_call(layer, i, acc.x))

RECURSIVE step_loop(_, _, _)
step_loop(ls, i, acc) ==
  IF i > Len(ls) \/ ~acc.ok THEN acc
  ELSE step_loop(ls, i + 1, step_layer(ls[i], i, acc))

\* step, line 167: `return x, states`
step_return(acc) == [ok |-> acc.ok, x |-> acc.x, states |-> acc.states, trace |-> acc.trace]

\* RecurrentContainer.step(x, states): [ok, x, states, trace].
step(ls, x, states) ==
  step_return(step_loop(ls, 1, [ok |-> TRUE, x |-> x, states |-> states,
                                state_index |-> 0, trace |-> <<>>]))

\* ------------------------------------------------- initial-state building
\* (mutant of Subst: 'input_length' is replaced by the batch size)
Subst_batch_only(shape, batch_size, input_length) ==
  [d \in 1..Len(shape) |->
     IF shape[d] \in {MinusOne, BatchSizeS, InputLengthS} THEN batch_size ELSE shape[d]]

\* The sentinel substitution shared by _get_state_from_info and reset_states.
Subst(shape, batch_size, input_length) ==
  [d \in 1..Len(shape) |->
     IF shape[d] \in {MinusOne, BatchSizeS} THEN batch_size
     ELSE IF shape[d] = InputLengthS THEN input_length
     ELSE shape[d]]

\* (mutant of _get_state_from_info: a literal array gives zeros of its shape)
_get_state_from_info_zeros(info, i, input, batch_size, input_length) ==
  IF info.type = "callable" THEN
    [list |-> info.n > 0,
     items |-> [j \in 1..(IF info.n = 0 THEN 1 ELSE info.n) |->
                  Tensor(input.shape, input.val, i)]]
  ELSE IF info.type = "tuple" THEN
    [list |-> FALSE,
     items |-> <<Tensor(Subst(info.shape, batch_size, input_length), 0, i)>>]
  ELSE IF info.type = "numpy" THEN
    [list |-> FALSE, items |-> <<Tensor(info.shape, 0, i)>>]
  ELSE IF info.type = "list" THEN
    [list |-> TRUE, items |-> [j \in 1..Len(info.shape) |-> Tensor(<<>>, info.shape[j], i)]]
  ELSE
    [list |-> FALSE, items |-> <<Tensor(info.shape, info.val, i)>>]

\* _get_state_from_info: [list, items].  list = TRUE when the value returned
\* is a Python list (its items are then spliced into the state vector).
_get_state_from_info(info, i, input, batch_size, input_length) ==
  IF info.type = "callable" THEN
    [list |-> info.n > 0,
     items |-> [j \in 1..(IF info.n = 0 THEN 1 ELSE info.n) |->
                  Tensor(input.shape, input.val, i)]]
  ELSE IF info.type = "tuple" THEN
    [list |-> FALSE,
     items |-> <<Tensor(Subst(info.shape, batch_size, input_length), 0, i)>>]
  ELSE IF info.type = "numpy" THEN
    [list |-> FALSE, items |-> <<Tensor(info.shape, info.val, i)>>]
  ELSE IF info.type = "list" THEN
    \* returned unchanged: the list of dimensions itself
    [list |-> TRUE, items |-> [j \in 1..Len(info.shape) |-> Tensor(<<>>, info.shape[j], i)]]
  ELSE
    [list |-> FALSE, items |-> <<Tensor(info.shape, info.val, i)>>]

\* The inner loop of get_initial_states over layer.states.
RECURSIVE layer_initial_states(_, _, _, _, _, _)
layer_initial_states(layer, i, j, input, batch_size, input_length) ==
  IF j > Len(layer.states) THEN <<>>
  ELSE LET state == _get_state_from_info(layer.states[j], i, input, batch_size, input_length)
       IN  state.items
           \o layer_initial_states(layer, i, j + 1, input, batch_size, input_length)

\* x[:, 0]
_get_first_timestep(x) == x[1]

\* (mutant of initial_stepped: the states the extra step returned are kept)
initial_stepped_keeps_new(acc, lis, r) ==
  [ok |-> r.ok, input |-> r.x, initial_states |-> acc.initial_states \o r.states]

\* get_initial_states, lines 202-204: the Cell is stepped once on the states
\* just built for it (lis); its output is the next sub-unit's input.
initial_stepped(acc, lis, r) ==
  [ok |-> r.ok, input |-> r.x, initial_states |-> acc.initial_states \o lis]

\* get_initial_states, lines 196-204, for the Cell at position i.
initial_cell(layer, i, acc, lis) ==
  initial_stepped(acc, lis, RNNCell_step(layer, i, acc.input, lis))

\* The outer loop of get_initial_states; acc = [ok, input, initial_states].
RECURSIVE initial_loop(_, _, _, _, _)
initial_loop(ls, i, acc, batch_size, input_length) ==
  IF i > Len(ls) \/ ~acc.ok THEN acc
  ELSE IF _isRNN(ls[i]) THEN
    initial_loop(ls, i + 1,
         initial_cell(ls[i], i, acc,
           layer_initial_states(ls[i], i, 1, acc.input, batch_size, input_length)),
         batch_size, input_length)
  ELSE
    initial_loop(ls, i + 1, [acc EXCEPT !.input = layer_call(ls[i], i, acc.input)],
                 batch_size, input_length)

\* get_initial_states, line 206: `return initial_states`
initial_return(acc) == [ok |-> acc.ok, initial_states |-> acc.initial_states]

\* get_initial_states(x): [ok, initial_states].  An unresolved batch size or
\* input length is read off x.
get_initial_states(ls, ispec, x) ==
  initial_return(
    initial_loop(ls, 1,
      [ok |-> TRUE, input |-> _get_first_timestep(x), initial_states |-> <<>>],
      IF ispec[1] = NoneDim THEN x[1].shape[1] ELSE ispec[1],
      IF ispec[2] = NoneDim THEN Len(x) ELSE ispec[2]))

\* ------------------------------------------------------------ reset_states
\* (mutant of reset_state: the type assertion is missing)
reset_state_untyped(state, i, batch_size, input_length) ==
  IF state.type = "numpy" THEN [ok |-> TRUE, t |-> Tensor(state.shape, state.val, i)]
  ELSE IF \E d \in 1..Len(state.shape) :
            \/ state.shape[d] \in {MinusOne, BatchSizeS} /\ batch_size = NoneDim
            \/ state.shape[d] = InputLengthS /\ input_length = NoneDim
       THEN [ok |-> FALSE, t |-> <<>>]
  ELSE [ok |-> TRUE, t |-> Tensor(Subst(state.shape, batch_size, input_length), 0, i)]

\* One state specification in reset_states: [ok, t].  ok = FALSE: one of the
\* three assertions failed.
reset_state(state, i, batch_size, input_length) ==
  IF state.type \notin {"tuple", "list", "numpy"} THEN [ok |-> FALSE, t |-> <<>>]
  ELSE IF state.type = "numpy" THEN [ok |-> TRUE, t |-> Tensor(state.shape, state.val, i)]
  ELSE IF \E d \in 1..Len(state.shape) :
            \/ state.shape[d] \in {MinusOne, BatchSizeS} /\ batch_size = NoneDim
            \/ state.shape[d] = InputLengthS /\ input_length = NoneDim
       THEN [ok |-> FALSE, t |-> <<>>]
  ELSE [ok |-> TRUE, t |-> Tensor(Subst(state.shape, batch_size, input_length), 0, i)]

\* The loops of reset_states, flattened: (i, j) is sub-unit i's state j.
\* acc = [ok, states].
RECURSIVE reset_loop(_, _, _, _, _, _)
reset_loop(ls, i, j, acc, batch_size, input_length) ==
  IF i > Len(ls) \/ ~acc.ok THEN acc
  ELSE IF ~_isRNN(ls[i]) \/ j > Len(ls[i].states)
    THEN reset_loop(ls, i + 1, 1, acc, batch_size, input_length)
  ELSE LET r == reset_state(ls[i].states[j], i, batch_size, input_length)
       IN reset_loop(ls, i, j + 1,
            [ok |-> r.ok, states |-> IF r.ok THEN Append(acc.states, r.t) ELSE acc.states],
            batch_size, input_length)

\* K.variable(...): a new engine variable per tensor.  A variable is named
\* by its position in the vector it was created for; the variables of an
\* earlier vector are named 0 once that vector is replaced (see Retire).
Variables(ts) ==
  [p \in 1..Len(ts) |->
     [id |-> p, shape |-> ts[p].shape, val |-> ts[p].val, by |-> ts[p].by]]

\* self.updates once self.states is replaced: the pairs stay in the list, but
\* the variables they name are no longer the container's, and nothing reads
\* what the engine assigns to them.  Such a pair is kept as (0, nothing).
Retire(ups) == [k \in 1..Len(ups) |-> [var |-> 0, new |-> Tensor(<<>>, 0, 0)]]

\* reset_states(): [err, states].  err "other": input_spec is None (no
\* sub-unit was ever added); err "config": an assertion failed.
reset_states_result(ls, ispec) ==
  IF ispec = NoSpec THEN [err |-> "other", states |-> <<>>]
  ELSE LET r == reset_loop(ls, 1, 1, [ok |-> TRUE, states |-> <<>>], ispec[1], ispec[2])
       IN IF r.ok THEN [err |-> "none", states |-> Variables(r.states)]
          ELSE [err |-> "config", states |-> <<>>]

\* ------------------------------------------------------------------ scan
Reverse(s) == [t \in 1..Len(s) |-> s[Len(s) + 1 - t]]

\* The engine's scan: step is applied to the timesteps in order, threading
\* the states.  acc = [ok, states, outputs, traj]; traj keeps each
\* invocation's trace.  rnn_stepped: r is what step returned at a timestep.
rnn_stepped(acc, r) ==
  [ok |-> r.ok, states |-> r.states,
   outputs |-> Append(acc.outputs, r.x),
   traj |-> Append(acc.traj, r.trace)]

RECURSIVE rnn_loop(_, _, _, _)
rnn_loop(ls, xs, t, acc) ==
  IF t > Len(xs) \/ ~acc.ok THEN acc
  ELSE rnn_loop(ls, xs, t + 1, rnn_stepped(acc, step(ls, xs[t], acc.states)))

\* What the scan returns: the last output, all outputs, the final states.
rnn_return(xs, r) ==
  [ok |-> r.ok, last_output |-> IF r.ok THEN r.outputs[Len(r.outputs)] ELSE xs[1],
   outputs |-> r.outputs,
   states |-> r.states, traj |-> r.traj]

\* The scan over the timesteps xs in the order given.
rnn_scan(ls, xs, initial_states) ==
  rnn_return(xs, rnn_loop(ls, xs, 1, [ok |-> TRUE, states |-> initial_states,
                                      outputs |-> <<>>, traj |-> <<>>]))

\* K.rnn(self.step, x, initial_states, go_backwards=...):
\* [ok, last_output, outputs, states, traj]
rnn(ls, x, initial_states, backwards) ==
  rnn_scan(ls, IF backwards THEN Reverse(x) ELSE x, initial_states)

\* ----------------------------------------------------------------- state
VARIABLES
  return_sequences, go_backwards, stateful, input_length, unroll,  \* the flags
  layers,      \* self.model.layers
  input_spec,  \* self.input_spec[0].shape, NoSpec while input_spec is None
  states,      \* self.states: the persistent state vector
  updates,     \* self.updates: the recorded (variable, new value) pairs
  lastOp,      \* the operation the last step performed
  lastErr,     \* "none", or the error it raised: "config" / "other"
  pre,         \* the sub-unit list and state vector before the last add
  pair,        \* the last two operations were add, then pop
  res,         \* what the last forward call was given, built and returned:
               \*   x the input, init the initial states (built: they were obtained),
               \*   fin / outs the scan's final states and outputs (ran: it returned),
               \*   traj its traces, ret the value returned, n0 / carried / prevFin
               \*   the values of ncalls, chain = "applied" and prevFin at the call
  prevFin,     \* the final states of the last persistent call that returned
  chain,       \* "called": since then nothing; "applied": only the engine's update
  ncalls,      \* persistent calls that recorded updates since the vector was last built
  trainable_weights,      \* a Cell's self.trainable_weights
  non_trainable_weights,  \* a Cell's self.non_trainable_weights
  regularizers,           \* a Cell's self.regularizers
  obs          \* what the last read-only operation was given and what it returned

flags == <<return_sequences, go_backwards, stateful, input_length, unroll>>
\* the fields of a RecurrentContainer, and the history kept about it
container == <<return_sequences, go_backwards, stateful, input_length, unroll,
               layers, input_spec, states, updates,
               lastOp, lastErr, pre, pair, res, prevFin, chain, ncalls>>
\* the fields of one RNNCell
cell == <<trainable_weights, non_trainable_weights, regularizers>>
vars == <<container, cell, obs>>

NoObs == [op |-> "none"]
\* An operation of the container touches no Cell's parameter lists.
container_only == obs' = NoObs /\ UNCHANGED cell

NoPre == [layers |-> <<>>, states |-> Unset, taken |-> FALSE]
NoRes == [x |-> <<>>, built |-> FALSE, init |-> <<>>, ran |-> FALSE, fin |-> <<>>,
          outs |-> <<>>, ret |-> [seq |-> FALSE, v |-> <<>>], traj |-> <<>>,
          carried |-> FALSE, prevFin |-> <<>>, n0 |-> 0]

\* RecurrentContainer.__init__
Init ==
  /\ return_sequences \in BOOLEAN
  /\ go_backwards \in BOOLEAN
  /\ stateful \in BOOLEAN
  /\ input_length \in {NoneDim, MaxT}
  /\ unroll \in BOOLEAN
  /\ layers = <<>>
  /\ input_spec = NoSpec
  /\ states = Unset
  /\ updates = <<>>
  /\ lastOp = "init" /\ lastErr = "none"
  /\ pre = NoPre /\ pair = FALSE /\ res = NoRes
  /\ prevFin = <<>> /\ chain = "none" /\ ncalls = 0
  /\ trainable_weights = <<>> /\ non_trainable_weights = <<>> /\ regularizers = <<>>
  /\ obs = NoObs

\* self.model.add(layer): the first layer brings its declared input shape,
\* a later one is built on the output shape of the list so far.
model_add(ls, u, b) ==
  Append(ls, Layer(u, IF ls = <<>> THEN <<b, 1>> ELSE layer_output_shape(ls[Len(ls)])))

\* (mutant of model_pop: the first layer is removed, not the last)
model_pop_first(ls) == Tail(ls)

\* self.model.pop()
model_pop(ls) == SubSeq(ls, 1, Len(ls) - 1)

\* (mutant of add_input_spec: the shape is taken from the layer just added)
add_input_spec_latest(ls, ispec, ilen) ==
  <<ls[Len(ls)].shape[1], ilen>> \o Tail(ls[Len(ls)].shape)

\* add, lines 125-129: the container's input shape after the add.
add_input_spec(ls, ispec, ilen) ==
  IF Len(ls) = 1 THEN <<ls[1].shape[1], ilen>> \o Tail(ls[1].shape) ELSE ispec

\* (mutant of rebuild: self.states is emptied before the loop, so a failed
\* assertion leaves it empty)
rebuild_clobber(ls, ispec) ==
  IF stateful THEN
    LET r == reset_states_result(ls, ispec)
    IN IF r.err = "none"
       THEN [err |-> "none", states |-> [set |-> TRUE, v |-> r.states],
             updates |-> Retire(updates), ncalls |-> 0]
       ELSE [err |-> r.err, states |-> [set |-> TRUE, v |-> <<>>],
             updates |-> Retire(updates), ncalls |-> 0]
  ELSE [err |-> "none", states |-> states, updates |-> updates, ncalls |-> ncalls]

\* `if self.stateful: self.reset_states()` of add and pop, and reset_states
\* itself: [err, states, updates, ncalls].  self.states is assigned once, after
\* the loops: a failed assertion leaves it as it was.
rebuild(ls, ispec) ==
  IF stateful THEN
    LET r == reset_states_result(ls, ispec)
    IN IF r.err = "none"
       THEN [err |-> "none", states |-> [set |-> TRUE, v |-> r.states],
             updates |-> Retire(updates), ncalls |-> 0]
       ELSE [err |-> r.err, states |-> states, updates |-> updates, ncalls |-> ncalls]
  ELSE [err |-> "none", states |-> states, updates |-> updates, ncalls |-> ncalls]

\* RecurrentContainer.add(layer)
add ==
  /\ Len(layers) < MaxLayers
  /\ \E u \in Units, b \in {NoneDim, Batch} :
       /\ layers # <<>> => b = layers[1].shape[1]
       /\ LET ls == model_add(layers, u, b)
              isp == add_input_spec(ls, input_spec, input_length)
              r == rebuild(ls, isp)
          IN /\ layers' = ls
             /\ input_spec' = isp
             /\ states' = r.states
             /\ updates' = r.updates
             /\ ncalls' = r.ncalls
             /\ lastErr' = r.err
  /\ lastOp' = "add"
  /\ pre' = [layers |-> layers, states |-> states, taken |-> TRUE]
  /\ pair' = FALSE /\ res' = NoRes /\ prevFin' = <<>> /\ chain' = "none"
  /\ UNCHANGED flags
  /\ container_only

\* RecurrentContainer.pop(); the model raises when it holds no layer.
pop ==
  /\ IF layers = <<>>
       THEN /\ lastErr' = "other"
            /\ UNCHANGED <<layers, states, updates, ncalls>>
       ELSE LET ls == model_pop(layers)
                r == rebuild(ls, input_spec)
            IN /\ layers' = ls
               /\ states' = r.states
               /\ updates' = r.updates
               /\ ncalls' = r.ncalls
               /\ lastErr' = r.err
  /\ lastOp' = "pop"
  /\ pair' = (lastOp = "add")
  /\ pre' = IF lastOp = "add" THEN pre ELSE NoPre
  /\ res' = NoRes /\ prevFin' = <<>> /\ chain' = "none"
  /\ UNCHANGED <<flags, input_spec>>
  /\ container_only

\* RecurrentContainer.reset_states(), called on a persistent container
\* (between batches, by the user or the training loop)
reset_states ==
  /\ stateful
  /\ LET r == rebuild(layers, input_spec)
     IN /\ lastErr' = r.err
        /\ states' = r.states
        /\ updates' = r.updates
        /\ ncalls' = r.ncalls
  /\ lastOp' = "reset_states"
  /\ pre' = NoPre /\ pair' = FALSE /\ res' = NoRes /\ prevFin' = <<>> /\ chain' = "none"
  /\ UNCHANGED <<flags, layers, input_spec>>
  /\ container_only

\* An input batch: T timesteps of shape (batch, 1), all ones or 1, 2, ..., T.
Input(T, B, pat) == [t \in 1..T |-> Tensor(<<B, 1>>, IF pat = "ones" THEN 1 ELSE t, 0)]

\* The persistent variables read as tensors.
AsTensors(vs) == [p \in 1..Len(vs) |-> Tensor(vs[p].shape, vs[p].val, vs[p].by)]

\* (mutant of call_initial_states: the persistent vector is not used)
call_initial_states_fresh(x) == get_initial_states(layers, input_spec, x)

\* call, lines 171-174: [ok, initial_states]
call_initial_states(x) ==
  IF stateful THEN [ok |-> TRUE, initial_states |-> AsTensors(states.v)]
  ELSE get_initial_states(layers, input_spec, x)

\* (mutant of call_updates: the loop stops one position early)
call_updates_short(final) ==
  [ok |-> Len(final) <= Len(states.v),
   updates |-> [i \in 1..(Min(Len(final), Len(states.v)) - 1) |->
                  [var |-> states.v[i].id, new |-> final[i]]]]

\* call, lines 176-179: the pairs recorded, and whether the loop ran off the
\* end of self.states (an IndexError): [ok, updates]
call_updates(final) ==
  [ok |-> Len(final) <= Len(states.v),
   updates |-> [i \in 1..Min(Len(final), Len(states.v)) |->
                  [var |-> states.v[i].id, new |-> final[i]]]]

\* (mutant of call_return: the two branches exchanged)
call_return_swapped(r) ==
  [seq |-> return_sequences,
   v |-> IF return_sequences THEN <<r.last_output>> ELSE r.outputs]

\* call, lines 180-183
call_return(r) ==
  [seq |-> return_sequences,
   v |-> IF return_sequences THEN r.outputs ELSE <<r.last_output>>]

\* call raised: nothing is recorded; rec is what the call had got to.
call_raise(rec) ==
  /\ res' = rec /\ lastErr' = "other"
  /\ UNCHANGED <<updates, ncalls>>
  /\ prevFin' = <<>> /\ chain' = "none"

\* call, lines 176-183: the scan returned r; u is what the update loop
\* records.  In persistent mode the pairs written before an IndexError stay.
call_record(ran, r, u) ==
  IF stateful /\ ~u.ok
  THEN /\ res' = ran /\ lastErr' = "other"
       /\ updates' = u.updates
       /\ ncalls' = ncalls + 1
       /\ prevFin' = <<>> /\ chain' = "none"
  ELSE /\ res' = [ran EXCEPT !.ret = call_return(r)]
       /\ lastErr' = "none"
       /\ updates' = IF stateful THEN u.updates ELSE updates
       /\ ncalls' = IF stateful THEN ncalls + 1 ELSE ncalls
       /\ prevFin' = IF stateful THEN r.states ELSE <<>>
       /\ chain' = IF stateful THEN "called" ELSE "none"

\* call, lines 175-183: r is what K.rnn gave.
call_scanned(built, r) ==
  IF ~r.ok THEN call_raise([built EXCEPT !.traj = r.traj])
  ELSE call_record([built EXCEPT !.ran = TRUE, !.fin = r.states, !.outs = r.outputs,
                                 !.traj = r.traj],
                   r, call_updates(r.states))

\* call, lines 171-183: ini is what lines 171-174 gave.
call_started(x, base, ini) ==
  IF ~ini.ok THEN call_raise(base)
  ELSE call_scanned([base EXCEPT !.built = ini.ok, !.init = ini.initial_states],
                    rnn(layers, x, ini.initial_states, go_backwards))

\* call on the input x: reading self.input_spec[0] of a container without
\* sub-units, or self.states before any reset_states, raises.
call_on(x, base) ==
  IF input_spec = NoSpec \/ (stateful /\ ~states.set) THEN call_raise(base)
  ELSE call_started(x, base, call_initial_states(x))

\* The record of a call on x, before anything is built.
call_base(x) ==
  [NoRes EXCEPT !.x = x, !.carried = (chain = "applied"),
                !.prevFin = prevFin, !.n0 = ncalls]

\* RecurrentContainer.call(x)
call ==
  /\ stateful => ncalls < MaxCalls
  /\ \E T \in 1..MaxT, pat \in {"ones", "ramp"} :
       /\ (input_spec # NoSpec /\ input_spec[2] # NoneDim) => T = input_spec[2]
       /\ (T = 1 \/ input_spec = NoSpec) => pat = "ones"
       /\ call_on(Input(T, Batch, pat), call_base(Input(T, Batch, pat)))
  /\ lastOp' = "call"
  /\ pre' = NoPre /\ pair' = FALSE
  /\ UNCHANGED <<flags, layers, input_spec, states>>
  /\ container_only

\* The value a variable holds once the recorded pairs are assigned in order.
Assigned(v, ups) ==
  LET hits == {k \in 1..Len(ups) : ups[k].var = v.id}
  IN IF hits = {} THEN v
     ELSE LET k == CHOOSE h \in hits : \A g \in hits : g <= h
          IN [id |-> v.id, shape |-> ups[k].new.shape, val |-> ups[k].new.val,
              by |-> ups[k].new.by]

\* The engine applies the recorded updates after a forward pass.
apply_updates ==
  /\ updates # <<>>
  /\ states.set
  /\ states' = [states EXCEPT !.v = [p \in 1..Len(states.v) |-> Assigned(states.v[p], updates)]]
  /\ chain' = IF chain \in {"called", "applied"} THEN "applied" ELSE "none"
  /\ lastOp' = "apply_updates" /\ lastErr' = "none"
  /\ pre' = NoPre /\ pair' = FALSE /\ res' = NoRes
  /\ UNCHANGED <<flags, layers, input_spec, updates, prevFin, ncalls>>
  /\ container_only

Next == add \/ pop \/ reset_states \/ call \/ apply_updates

Spec == Init /\ [][Next]_vars

\* ------------------------------------------------- shapes and configuration
\* self.model.output_shape: the output shape of the last layer.
model_output_shape(ls) == layer_output_shape(ls[Len(ls)])

\* (mutant of output_shape_value: the time dimension is never inserted)
output_shape_last_only(ls, ispec) == model_output_shape(ls)

\* The value of the property output_shape, lines 146-151.
output_shape_value(ls, ispec) ==
  IF return_sequences
  THEN <<model_output_shape(ls)[1], ispec[2]>> \o Tail(model_output_shape(ls))
  ELSE model_output_shape(ls)

\* RecurrentContainer.output_shape is read.  It raises while input_spec is
\* None (line 146) and, in the model, while the list is empty (line 147).
output_shape ==
  /\ obs' = IF input_spec = NoSpec \/ layers = <<>>
            THEN [op |-> "output_shape", ok |-> FALSE, v |-> <<>>]
            ELSE [op |-> "output_shape", ok |-> TRUE,
                  v |-> output_shape_value(layers, input_spec)]
  /\ UNCHANGED <<container, cell>>

\* Layer.get_config() of the base layer, line 288: the keys it returns.  The
\* base layer reports its name and trainability, and its batch input shape
\* once it has one (the container gets one at line 128).
base_config ==
  {"name", "trainable"} \cup (IF input_spec # NoSpec THEN {"batch_input_shape"} ELSE {})

\* get_config(), lines 285-289: the keys of the dictionary, the values of the
\* five attributes, and the wrapped model's own configuration (one entry per
\* layer, in order).
get_config ==
  [keys |-> base_config
              \cup {"return_sequences", "go_backwards", "stateful", "input_length", "unroll"}
              \cup {"model"},
   return_sequences |-> return_sequences, go_backwards |-> go_backwards,
   stateful |-> stateful, input_length |-> input_length, unroll |-> unroll,
   model |-> [i \in 1..Len(layers) |-> layers[i]]]

\* The keyword arguments __init__ accepts, line 108.
init_args ==
  {"weights", "return_sequences", "go_backwards", "stateful", "input_length", "unroll"}

\* from_config(config), lines 293-297: `cls(**config)` raises TypeError on a
\* keyword __init__ does not accept; otherwise the flags are those given and
\* the list is rebuilt from the model's configuration.
from_config(config) ==
  IF (config.keys \ {"model"}) \subseteq init_args
  THEN [ok |-> TRUE,
        return_sequences |-> config.return_sequences, go_backwards |-> config.go_backwards,
        stateful |-> config.stateful, input_length |-> config.input_length,
        unroll |-> config.unroll,
        layers |-> config.model]
  ELSE [ok |-> FALSE,
        return_sequences |-> FALSE, go_backwards |-> FALSE, stateful |-> FALSE,
        input_length |-> NoneDim, unroll |-> FALSE, layers |-> <<>>]

\* RecurrentContainer.from_config(container.get_config())
config_round_trip ==
  /\ obs' = [op |-> "from_config", config |-> get_config, rc |-> from_config(get_config)]
  /\ UNCHANGED <<container, cell>>

ShapeNext == add \/ pop \/ output_shape \/ config_round_trip

\* The container as it is assembled and inspected, before any forward call.
ShapeSpec == Init /\ [][ShapeNext]_vars

\* ------------------------------------------- one state specification
\* A container with the default flags, and a Cell as built.
CellInit ==
  /\ Init
  /\ ~return_sequences /\ ~go_backwards /\ ~stateful /\ ~unroll
  /\ input_length = NoneDim

\* The state specifications a Cell may declare.
Infos ==
  { TupleSpec(<<MinusOne, 1>>), TupleSpec(<<BatchSizeS, InputLengthS>>),
    TupleSpec(<<Batch, 1>>), TupleSpec(<<InputLengthS, BatchSizeS, MinusOne>>),
    ListSpec(<<Batch, 1>>), ListSpec(<<MinusOne, 1>>),
    NumpySpec(<<Batch, 1>>, 1), NumpySpec(<<1>>, 0),
    CallableSpec(0), CallableSpec(2),
    TensorSpec(<<Batch, 1>>, 1) }

\* One specification is resolved both ways for the same running input,
\* batch size and input length: as get_initial_states does (line 198) and as
\* reset_states does (lines 215-227).
resolve ==
  /\ \E info \in Infos, v \in 1..2,
        bs \in {NoneDim, Batch, Batch + 3},
        il \in {NoneDim, MaxT, MaxT + 4} :
       obs' = [op |-> "resolve", info |-> info, input |-> Tensor(<<Batch, 1>>, v, 0),
               batch_size |-> bs, input_length |-> il,
               initial |-> IF NoneDim \in {bs, il}
                           THEN [list |-> FALSE, items |-> <<>>]
                           ELSE _get_state_from_info(info, 1, Tensor(<<Batch, 1>>, v, 0),
                                                     bs, il),
               persistent |-> reset_state(info, 1, bs, il)]
  /\ UNCHANGED <<container, cell>>

StateNext == resolve

\* State specifications, resolved one at a time.
StateSpec == CellInit /\ [][StateNext]_vars

\* ------------------------------------------------------------ one RNNCell
\* weight(value, regularizer=..., trainable=...), lines 34-50, around a ready
\* tensor: value names the tensor, regularizer the regularizer object.
Weight(value, regularizer, trainable) ==
  [weight |-> TRUE, value |-> value, regularizer |-> regularizer, trainable |-> trainable]

\* A plain tensor in a parameter list.  It has no attributes regularizer and
\* trainable: the two fields are never read.
PlainTensor(value) ==
  [weight |-> FALSE, value |-> value, regularizer |-> NoRegularizer, trainable |-> FALSE]

\* The entries a caller may put in a parameter list: two tensors, one
\* regularizer object; every combination of trainability and regularizer.
Entries ==
  { Weight("W", 1, TRUE), Weight("W", NoRegularizer, FALSE),
    Weight("U", 1, FALSE), Weight("U", NoRegularizer, TRUE),
    PlainTensor("W"), PlainTensor("U") }

\* The parameter lists of up to n entries.
RECURSIVE Lists(_)
Lists(n) ==
  IF n = 0 THEN {<<>>}
  ELSE Lists(n - 1) \cup {Append(l, e) : l \in {m \in Lists(n - 1) : Len(m) = n - 1}, e \in Entries}

\* setter, lines 89-90: `if not isinstance(w, weight): w = weight(w)`, with the
\* defaults of line 36.
wrap(w) == IF w.weight THEN w ELSE Weight(w.value, NoRegularizer, TRUE)

\* (mutant of weights_entry: the trainability flag is not looked at)
weights_entry_all_trainable(acc, w) ==
  [trainable_weights |-> Append(acc.trainable_weights, w.value),
   non_trainable_weights |-> acc.non_trainable_weights,
   regularizers |->
     IF w.regularizer # NoRegularizer THEN Append(acc.regularizers, w.regularizer)
     ELSE acc.regularizers,
   param |-> IF w.regularizer # NoRegularizer THEN w.value ELSE acc.param]

\* setter, lines 91-97, for one wrapped entry.  acc = the three lists so far
\* and param, the tensor the regularizer object is bound to (set_param).
weights_entry(acc, w) ==
  [trainable_weights |->
     IF w.trainable THEN Append(acc.trainable_weights, w.value)
     ELSE acc.trainable_weights,
   non_trainable_weights |->
     IF w.trainable THEN acc.non_trainable_weights
     ELSE Append(acc.non_trainable_weights, w.value),
   regularizers |->
     IF w.regularizer # NoRegularizer THEN Append(acc.regularizers, w.regularizer)
     ELSE acc.regularizers,
   param |-> IF w.regularizer # NoRegularizer THEN w.value ELSE acc.param]

\* The loop of the setter.
RECURSIVE weights_loop(_, _, _)
weights_loop(ws, k, acc) ==
  IF k > Len(ws) THEN acc
  ELSE weights_loop(ws, k + 1, weights_entry(acc, wrap(ws[k])))

\* The list self.regularizers: each entry is the regularizer object, read
\* with the tensor it is bound to once the loop is over.
bound(acc) ==
  [k \in 1..Len(acc.regularizers) |-> [regularizer |-> acc.regularizers[k], param |-> acc.param]]

\* What the last operation on the Cell knew as the list last assigned.
assigned == IF obs.op \in {"weights_set", "weights", "_step"} THEN obs.ws ELSE <<>>

\* What the setter leaves in the Cell, lines 85-97.
weights_stored(acc, ws) ==
  /\ trainable_weights' = acc.trainable_weights
  /\ non_trainable_weights' = acc.non_trainable_weights
  /\ regularizers' = bound(acc)
  /\ obs' = [op |-> "weights_set", ws |-> ws,
             again |-> (obs.op = "weights_set" /\ obs.ws = ws)]

\* RNNCell.weights = ws (the setter)
weights_set ==
  /\ \E ws \in Lists(MaxWs) :
       weights_stored(weights_loop(ws, 1,
                        [trainable_weights |-> <<>>, non_trainable_weights |-> <<>>,
                         regularizers |-> <<>>, param |-> "none"]), ws)
  /\ UNCHANGED container

\* The value of RNNCell.weights (the getter, lines 76-81).
weights_value == trainable_weights \o non_trainable_weights

\* RNNCell.weights is read.
weights ==
  /\ obs' = [op |-> "weights", ws |-> assigned, v |-> weights_value]
  /\ UNCHANGED <<container, cell>>

\* _step, lines 62-66: the arguments on offer.  A Cell always has the
\* attribute weights (a property of the class).
step_args(has_constants) ==
  <<"x", "states", "weights">> \o (IF has_constants THEN <<"constants">> ELSE <<>>)

\* len(getargspec(self.step).args): a step defined as a method of the Cell's
\* class counts its receiver, a function stored on the instance has none.
argspec_len(n, method) == IF method THEN n + 1 ELSE n

\* _step, line 67: args[:len(getargspec(self.step).args)]
step_passed(n, method, has_constants) ==
  Slice(step_args(has_constants), 0, argspec_len(n, method))

\* RNNCell._step(x, states) of a Cell whose step declares n arguments (its
\* receiver not counted).  ok: the call of line 68 has as many arguments as
\* step declares; otherwise it raises TypeError.
_step ==
  /\ \E n \in 1..4, method \in BOOLEAN, has_constants \in BOOLEAN :
       obs' = [op |-> "_step", ws |-> assigned, n |-> n, method |-> method,
               has_constants |-> has_constants,
               passed |-> step_passed(n, method, has_constants),
               ok |-> Len(step_passed(n, method, has_constants)) = n,
               weights |-> weights_value]
  /\ UNCHANGED <<container, cell>>

CellNext == weights_set \/ weights \/ _step

\* One Cell, given parameter lists, read and stepped.
CellSpec == CellInit /\ [][CellNext]_vars

\* ---------------------------------------------------------------- claims
\* The declared state specifications of the Cells of a list, in sub-unit order.
RECURSIVE Declared(_)
Declared(ls) ==
  IF ls = <<>> THEN <<>>
  ELSE Declared(SubSeq(ls, 1, Len(ls) - 1))
       \o (IF ls[Len(ls)].rnn THEN ls[Len(ls)].states ELSE <<>>)

\* The sum of the declared state counts of the Cells among the first n sub-units.
Count(ls, n) == Len(Declared(SubSeq(ls, 1, n)))

\* The timesteps in the order the scan visits them.
Visited == IF go_backwards THEN Reverse(res.x) ELSE res.x

Returned == lastOp = "call" /\ lastErr = "none"

\* C1: a container of one accumulating Cell (new_state = input + state,
\* output = new_state), started from a zero state on an all-ones input of
\* length T, returns 1, 2, ..., T for every batch row with return_sequences,
\* and only T without it.
C1_AccumulatorCounts ==
  ( /\ Returned
    /\ Len(layers) = 1 /\ layers[1].rnn /\ layers[1].fn = "acc"
    /\ \A t \in 1..Len(res.x) : res.x[t].val = 1
    /\ res.init # <<>> /\ \A p \in 1..Len(res.init) : res.init[p].val = 0 )
  => LET T == Len(res.x)
     IN IF return_sequences
        THEN /\ res.ret.seq
             /\ Len(res.ret.v) = T
             /\ \A t \in 1..T : res.ret.v[t].val = t /\ res.ret.v[t].shape = <<Batch, 1>>
        ELSE /\ ~res.ret.seq
             /\ Len(res.ret.v) = 1
             /\ res.ret.v[1].val = T /\ res.ret.v[1].shape = <<Batch, 1>>

C1_Witness ==
  /\ Returned /\ return_sequences
  /\ Len(layers) = 1 /\ layers[1].rnn /\ layers[1].fn = "acc"
  /\ Len(res.x) = MaxT /\ \A t \in 1..Len(res.x) : res.x[t].val = 1
  /\ res.init # <<>> /\ \A p \in 1..Len(res.init) : res.init[p].val = 0
  /\ Len(res.ret.v) = MaxT /\ res.ret.v[MaxT].val = MaxT

\* What one invocation of the composite step must have done: tr is its
\* trace, x its input, before the state vector it was given.
InOrder(tr, x, before) ==
  /\ Len(tr) = Len(layers)
  /\ \A i \in 1..Len(layers) :
       LET e == tr[i]
           k == Len(layers[i].states)
       IN /\ e.i = i
          /\ e.in = IF i = 1 THEN x ELSE tr[i - 1].out
          /\ e.before = IF i = 1 THEN before ELSE tr[i - 1].after
          /\ IF layers[i].rnn
             THEN /\ e.off = Count(layers, i - 1)
                  /\ e.off <= Len(e.before)
                  /\ Len(e.slice) = Min(k, Len(e.before) - e.off)
                  /\ \A q \in 1..Len(e.slice) : e.slice[q] = e.before[e.off + q]
                  /\ LET r == cell_step(layers[i], i, e.in, e.slice)
                     IN r.ok /\ e.out = r.x /\ e.new = r.states
                  /\ Len(e.new) = k
                  /\ Len(e.after) = (IF Len(e.before) < e.off + k THEN e.off + k
                                      ELSE Len(e.before))
                  /\ \A p \in 1..Len(e.after) :
                       e.after[p] = IF e.off < p /\ p <= e.off + k THEN e.new[p - e.off]
                                    ELSE e.before[p]
             ELSE /\ e.out = layer_call(layers[i], i, e.in)
                  /\ e.slice = <<>> /\ e.new = <<>>
                  /\ e.after = e.before

\* C2: the composite step applies the sub-units in declaration order: each
\* receives the output of the one before it; a stateless sub-unit leaves
\* the state vector alone; a Cell is stepped on the slice that starts at the
\* sum of the declared state counts of the Cells before it and its new state
\* is written back into those positions; the step returns the last
\* sub-unit's output and the full state vector.
C2_StepInDeclarationOrder ==
  (lastOp = "call" /\ res.ran)
  => /\ Len(res.traj) = Len(res.x) /\ Len(res.outs) = Len(res.x)
     /\ \A t \in 1..Len(res.x) :
          LET tr == res.traj[t]
              before == IF t = 1 THEN res.init ELSE
                          IF layers = <<>> THEN res.init
                          ELSE res.traj[t - 1][Len(layers)].after
          IN /\ InOrder(tr, Visited[t], before)
             /\ res.outs[t] = IF layers = <<>> THEN Visited[t] ELSE tr[Len(layers)].out
     /\ res.fin = IF layers = <<>> THEN res.init
                  ELSE res.traj[Len(res.x)][Len(layers)].after

C2_Witness ==
  /\ lastOp = "call" /\ res.ran
  /\ Len(layers) = 2 /\ layers[1].rnn /\ layers[2].rnn /\ layers[2].fn = "acc2"
  /\ Len(res.x) >= 2
  /\ res.traj[2][2].off = 1
  /\ res.traj[2][2].after # res.traj[2][2].before

\* C3: during a scan the state vector keeps its length, and the slice a Cell
\* is stepped on has the Cell's declared state count and holds only values
\* the Cell itself produced (or its own initial state).
C3_SlicesStayOwn ==
  (lastOp = "call" /\ res.built)
  => \A t \in 1..Len(res.traj) : \A i \in 1..Len(res.traj[t]) :
       LET e == res.traj[t][i]
       IN /\ Len(e.before) = Len(res.init)
          /\ Len(e.after) = Len(res.init)
          /\ layers[e.i].rnn =>
               /\ Len(e.slice) = Len(layers[e.i].states)
               /\ \A q \in 1..Len(e.slice) : e.slice[q].by = e.i

\* C4: the initial state vector get_initial_states builds has one entry per
\* declared state of each Cell: its length is the sum of the declared counts.
C4_InitialLengthIsDeclaredCount ==
  (lastOp = "call" /\ ~stateful /\ res.built)
  => Len(res.init) = Len(Declared(layers))

ShapesOf(vs) == [p \in 1..Len(vs) |-> vs[p].shape]

\* The value a specification that reset_states accepts gives its buffer.
InitVal(sp) == IF sp.type = "numpy" THEN sp.val ELSE 0

\* C5 as claimed: add then pop leaves the sub-unit list as it was and, in
\* persistent mode, a state vector of the same shapes, all zero.
C5_AddPopRestoresZeroed ==
  pair => /\ layers = pre.layers
          /\ stateful => /\ ShapesOf(states.v) = ShapesOf(pre.states.v)
                         /\ \A p \in 1..Len(states.v) : states.v[p].val = 0

\* C5 amended: add then pop leaves the sub-unit list as it was and, in
\* persistent mode, a state vector with as many buffers, of the same shapes,
\* as before; when the pop returns normally each buffer holds the value its
\* specification gives it: zero for a shape, the array's own values for a
\* literal array.
C5_AddPopRestores ==
  pair => /\ layers = pre.layers
          /\ stateful =>
               /\ ShapesOf(states.v) = ShapesOf(pre.states.v)
               /\ lastErr = "none" =>
                    /\ Len(states.v) = Len(Declared(layers))
                    /\ \A p \in 1..Len(states.v) :
                         states.v[p].val = InitVal(Declared(layers)[p])

C5_Witness ==
  /\ pair /\ stateful /\ lastErr = "none"
  /\ Len(layers) = 1
  /\ Len(states.v) = 1 /\ Len(pre.states.v) = 1
  /\ states.v[1].val = 1
  /\ pre.states.v[1].val > 1

\* A step in which reset_states ran: on its own, or inside add or pop.
Rebuilds ==
  /\ stateful
  /\ \/ lastOp' \in {"add", "reset_states"}
     \/ lastOp' = "pop" /\ layers # <<>>

\* A shape that uses a sentinel the container's input shape does not resolve.
UsesUnresolved(sp, isp) ==
  /\ sp.type \in {"tuple", "list"}
  /\ \E d \in 1..Len(sp.shape) :
       \/ sp.shape[d] \in {MinusOne, BatchSizeS} /\ isp[1] = NoneDim
       \/ sp.shape[d] = InputLengthS /\ isp[2] = NoneDim

BuiltShape(sp, isp) ==
  IF sp.type = "numpy" THEN sp.shape
  ELSE [d \in 1..Len(sp.shape) |->
          IF sp.shape[d] > 0 THEN sp.shape[d]
          ELSE IF sp.shape[d] = InputLengthS THEN isp[2] ELSE isp[1]]

\* v is the vector built from the list ls: one buffer per declared state, in
\* order, of the declared shape with concrete dimensions, at its first value.
Fresh(v, ls, isp) ==
  /\ Len(v) = Len(Declared(ls))
  /\ \A p \in 1..Len(v) :
       LET sp == Declared(ls)[p]
       IN /\ v[p].id = p
          /\ v[p].shape = BuiltShape(sp, isp)
          /\ \A d \in 1..Len(v[p].shape) : v[p].shape[d] > 0
          /\ v[p].val = InitVal(sp)

Dynamic(ls) ==
  \E p \in 1..Len(Declared(ls)) : Declared(ls)[p].type \in {"callable", "tensor"}

\* C7 as claimed: reset_states fails with the configuration error, leaving
\* the vector alone, if some Cell declares a callable or a ready tensor; if
\* every specification is a shape or a literal array it replaces the vector.
C7_StaticIsEnough ==
  [][ Rebuilds =>
        IF Dynamic(layers')
        THEN lastErr' = "config" /\ states' = states
        ELSE lastErr' = "none" /\ states'.set /\ Fresh(states'.v, layers', input_spec') ]_vars

\* C7 amended: reset_states fails with the configuration error, leaving the
\* vector alone, if some Cell declares a callable or a ready tensor; if every
\* specification is a shape or a literal array, every sentinel they use is
\* resolved by the container's input shape, and the container has an input
\* shape, it replaces the whole vector.
C7_StaticAndResolved ==
  [][ Rebuilds =>
        IF Dynamic(layers')
        THEN lastErr' = "config" /\ states' = states
        ELSE ( /\ input_spec' # NoSpec
               /\ \A p \in 1..Len(Declared(layers')) :
                     ~UsesUnresolved(Declared(layers')[p], input_spec') )
             => ( lastErr' = "none" /\ states'.set
                  /\ Fresh(states'.v, layers', input_spec') ) ]_vars

C7_Witness ==
  /\ stateful /\ lastOp = "add" /\ lastErr = "config"
  /\ Dynamic(layers)
  /\ states.set /\ Len(states.v) = 1 /\ states.v[1].val > 1

\* C8: a persistent forward call leaves the persistent vector as it is; when
\* it returns, self.updates pairs each buffer with this call's final state of
\* the same position; the buffers take those values when the engine applies
\* the pairs.
C8_UpdatesAreDeferred ==
  [][ /\ (stateful /\ lastOp' = "call") =>
           /\ states' = states
           /\ lastErr' = "none" =>
                /\ Len(updates') = Len(states.v)
                /\ \A i \in 1..Len(states.v) :
                     updates'[i] = [var |-> states.v[i].id, new |-> res'.fin[i]]
      /\ (lastOp' = "apply_updates" /\ chain = "called") =>
           /\ Len(states'.v) = Len(prevFin)
           /\ \A i \in 1..Len(prevFin) :
                /\ states'.v[i].id = states.v[i].id
                /\ states'.v[i].val = prevFin[i].val ]_vars

C8_Witness ==
  /\ stateful /\ Returned
  /\ Len(states.v) = 2 /\ Len(updates) = 2
  /\ updates[2].var = states.v[2].id
  /\ updates[2].new.val # states.v[2].val

Static(ls) ==
  \A p \in 1..Len(Declared(ls)) : Declared(ls)[p].type \in {"tuple", "numpy"}

\* C9: in persistent mode a call that follows a returned call, with only the
\* engine's update in between, starts from that call's final states, and the
\* first call after the vector was built starts from the built values; in
\* non-persistent mode every call starts from newly built initial states.
C9_StateCarriesOver ==
  (lastOp = "call" /\ res.built)
  => /\ (stateful /\ res.carried) => res.init = res.prevFin
     /\ (stateful /\ res.n0 = 0) =>
          \A p \in 1..Len(res.init) : res.init[p].val = InitVal(Declared(layers)[p])
     /\ (~stateful /\ Static(layers)) =>
          /\ Len(res.init) = Len(Declared(layers))
          /\ \A p \in 1..Len(res.init) :
               /\ res.init[p].val = InitVal(Declared(layers)[p])
               /\ res.init[p].shape =
                    BuiltShape(Declared(layers)[p], <<Batch, Len(res.x)>>)

C9_Witness ==
  /\ stateful /\ Returned /\ res.carried
  /\ res.init # <<>> /\ res.init[1].val > 1
  /\ res.fin[1].val > res.init[1].val

\* C10: in persistent mode, after an add or a pop that returns normally the
\* persistent vector is the one built from the current sub-unit list: one
\* buffer per declared state, in order, of the declared shape with the
\* sentinels replaced by the concrete batch size and input length, holding
\* none of the values the buffers carried before.
C10_RebuiltAfterAddPop ==
  (stateful /\ lastOp \in {"add", "pop"} /\ lastErr = "none")
  => states.set /\ Fresh(states.v, layers, input_spec)

C10_Witness ==
  /\ stateful /\ lastOp = "add" /\ lastErr = "none"
  /\ Len(layers) = 2 /\ layers[2].fn = "acc2"
  /\ Len(states.v) = 3 /\ states.v[3].shape = <<MaxT, 1>>
  /\ states.v[1].val = 1
  /\ pre.states.set /\ pre.states.v[1].val > 1

\* C11: whenever a step leaves the sub-unit list non-empty, the container's
\* input shape is the declared input shape of the sub-unit first in the list
\* with the configured input length inserted as the second dimension; and an
\* add onto a non-empty list leaves the container's input shape as it was.
C11_InputShapeFollowsFirst ==
  [][ /\ layers' # <<>> =>
           input_spec' = <<layers'[1].shape[1], input_length'>> \o Tail(layers'[1].shape)
      /\ (lastOp' = "add" /\ layers # <<>>) => input_spec' = input_spec ]_vars

\* a second sub-unit, built on another shape than the first, was added
C11_Witness ==
  /\ lastOp = "add" /\ Len(layers) = 2
  /\ layers[2].shape # layers[1].shape
  /\ input_spec = <<layers[1].shape[1], input_length>> \o Tail(layers[1].shape)
  /\ input_length = MaxT

\* The shape a sub-unit gives for an input of shape sh: a Cell that declares
\* an output width replaces the last dimension by it, any other sub-unit of
\* the model keeps the shape.
UnitShape(layer, sh) ==
  IF layer.rnn /\ layer.output_dim # NoOutputDim
  THEN [d \in 1..Len(sh) |-> IF d = Len(sh) THEN layer.output_dim ELSE sh[d]]
  ELSE sh

\* The shape the first n sub-units give, applied in order to one timestep of
\* shape sh.
RECURSIVE PipelineShape(_, _, _)
PipelineShape(ls, n, sh) ==
  IF n = 0 THEN sh ELSE UnitShape(ls[n], PipelineShape(ls, n - 1, sh))

\* C12: the output shape of a container with sub-units is the per-timestep
\* output shape of the pipeline when only the last output is returned, and
\* that shape with the container's input length inserted as the second
\* dimension when the whole sequence is returned; a Cell's own output shape
\* is its input shape with the last dimension replaced by the declared
\* output width, and the input shape itself when it declares none.
C12_OutputShape ==
  (obs.op = "output_shape" /\ layers # <<>>) =>
    LET first == <<input_spec[1]>> \o SubSeq(input_spec, 3, Len(input_spec))
        P == PipelineShape(layers, Len(layers), first)
    IN /\ obs.ok
       /\ obs.v = IF return_sequences THEN <<P[1], input_spec[2]>> \o Tail(P) ELSE P
       /\ \A i \in 1..Len(layers) :
            layers[i].rnn =>
              get_output_shape_for(layers[i], layers[i].shape) =
                IF layers[i].output_dim # NoOutputDim
                THEN SubSeq(layers[i].shape, 1, Len(layers[i].shape) - 1)
                       \o <<layers[i].output_dim>>
                ELSE layers[i].shape

\* the whole sequence is returned by a pipeline whose first Cell is wider
\* than its input
C12_Witness ==
  /\ obs.op = "output_shape" /\ obs.ok /\ return_sequences
  /\ Len(layers) = 2 /\ layers[1].rnn /\ layers[1].output_dim = 2
  /\ input_length = MaxT
  /\ obs.v = <<Batch, MaxT, 2>>

\* C13: a Cell whose step is a method declaring n of the arguments input,
\* state, parameters, constants (the receiver not counted) is called with
\* exactly the first n of them, in that order: a step declaring (input,
\* state) gets two arguments and never the parameter list.
C13_PassesDeclaredArguments ==
  (obs.op = "_step" /\ obs.method /\ (obs.n = 4 => obs.has_constants)) =>
     /\ obs.passed = SubSeq(<<"x", "states", "weights", "constants">>, 1, obs.n)
     /\ obs.ok

\* An entry of a parameter list counts as trainable: a Parameter by its
\* flag, a plain tensor always.
IsTrainable(e) == ~e.weight \/ e.trainable
IsFrozen(e) == ~IsTrainable(e)
IsRegularized(e) == e.weight /\ e.regularizer # NoRegularizer
\* The tensors of a list of entries, in order.
Values(es) == [k \in 1..Len(es) |-> es[k].value]

\* C14: assigning a parameter list ws makes the trainable list, the
\* non-trainable list and the regularizer list a function of ws alone: the
\* tensors of the trainable entries in order (plain tensors count as
\* trainable, without regularizer), those of the non-trainable entries in
\* order, and the regularizers of the entries that have one; nothing of an
\* earlier assignment is left, and assigning the same ws again leaves the
\* three lists as they were.
C14_WeightsAreFunctionOfWs ==
  [][ obs'.op = "weights_set" =>
        /\ trainable_weights' = Values(SelectSeq(obs'.ws, IsTrainable))
        /\ non_trainable_weights' = Values(SelectSeq(obs'.ws, IsFrozen))
        /\ Len(regularizers') = Len(SelectSeq(obs'.ws, IsRegularized))
        /\ \A k \in 1..Len(regularizers') :
             /\ regularizers'[k].regularizer = SelectSeq(obs'.ws, IsRegularized)[k].regularizer
             /\ \E j \in 1..Len(obs'.ws) :
                  IsRegularized(obs'.ws[j]) /\ regularizers'[k].param = obs'.ws[j].value
        /\ (obs.op = "weights_set" /\ obs.ws = obs'.ws) => cell' = cell ]_vars

\* a list mixing a frozen regularized Parameter and a plain tensor was
\* assigned twice in a row
C14_Witness ==
  /\ obs.op = "weights_set" /\ obs.again
  /\ Len(obs.ws) = 2
  /\ obs.ws[1].weight /\ ~obs.ws[1].trainable /\ obs.ws[1].regularizer # NoRegularizer
  /\ ~obs.ws[2].weight
  /\ trainable_weights = <<obs.ws[2].value>>
  /\ non_trainable_weights = <<obs.ws[1].value>>
  /\ Len(regularizers) = 1

\* C20: reading a Cell's parameter list back (the list handed to step as
\* its parameters) gives the tensors of the list last assigned, in the order
\* they were assigned, whatever the mix of trainable and non-trainable
\* entries.
C20_ReadBackInOrder ==
  (obs.op \in {"weights", "_step"}) =>
     (IF obs.op = "weights" THEN obs.v ELSE obs.weights) = Values(obs.ws)

\* C15: deserializing the configuration a container serializes succeeds and
\* gives a container with the same five flags and a sub-unit list of the
\* same length with the same shapes in the same order.
C15_ConfigRoundTrip ==
  obs.op = "from_config" =>
    /\ obs.rc.ok
    /\ obs.rc.return_sequences = return_sequences
    /\ obs.rc.go_backwards = go_backwards
    /\ obs.rc.stateful = stateful
    /\ obs.rc.input_length = input_length
    /\ obs.rc.unroll = unroll
    /\ Len(obs.rc.layers) = Len(layers)
    /\ \A i \in 1..Len(layers) : obs.rc.layers[i].shape = layers[i].shape

\* C16: one state specification is resolved in the order callable, shape
\* tuple, literal array, pass-through: a callable is invoked on the running
\* input and its result used; a shape tuple has every -1 or 'batch_size'
\* entry replaced by the batch size and every 'input_length' entry by the
\* input length and gives an all-zero tensor of that shape; a literal array
\* is wrapped as a variable of its values; anything else comes back
\* unchanged.
C16_ResolutionOrder ==
  (obs.op = "resolve" /\ obs.batch_size # NoneDim /\ obs.input_length # NoneDim) =>
    LET info == obs.info
        r == obs.initial
    IN CASE info.type = "callable" ->
              /\ r.list = (info.n > 0)
              /\ Len(r.items) = (IF info.n = 0 THEN 1 ELSE info.n)
              /\ \A j \in 1..Len(r.items) :
                   r.items[j].shape = obs.input.shape /\ r.items[j].val = obs.input.val
         [] info.type = "tuple" ->
              /\ ~r.list /\ Len(r.items) = 1
              /\ r.items[1].val = 0
              /\ Len(r.items[1].shape) = Len(info.shape)
              /\ \A d \in 1..Len(info.shape) :
                   r.items[1].shape[d] =
                     IF info.shape[d] = MinusOne \/ info.shape[d] = BatchSizeS
                     THEN obs.batch_size
                     ELSE IF info.shape[d] = InputLengthS THEN obs.input_length
                     ELSE info.shape[d]
         [] info.type = "numpy" ->
              /\ ~r.list /\ Len(r.items) = 1
              /\ r.items[1].shape = info.shape /\ r.items[1].val = info.val
         [] info.type = "list" ->
              /\ r.list /\ Len(r.items) = Len(info.shape)
              /\ \A d \in 1..Len(info.shape) : r.items[d].val = info.shape[d]
         [] OTHER ->
              /\ ~r.list /\ Len(r.items) = 1
              /\ r.items[1].shape = info.shape /\ r.items[1].val = info.val

\* the shape ('batch_size', 'input_length') resolved for batch size 5 and
\* input length 7
C16_Witness ==
  /\ obs.op = "resolve"
  /\ obs.info = TupleSpec(<<BatchSizeS, InputLengthS>>)
  /\ obs.batch_size = Batch + 3 /\ obs.input_length = MaxT + 4
  /\ obs.initial.items = <<Tensor(<<Batch + 3, MaxT + 4>>, 0, 1)>>

\* C17: for every state specification reset_states accepts, and the same
\* concrete batch size and input length, the persistent buffer reset_states
\* builds has the shape and the values of the initial state tensor the
\* non-persistent construction builds from that specification.
C17_SameAsNonPersistent ==
  ( /\ obs.op = "resolve" /\ obs.batch_size # NoneDim /\ obs.input_length # NoneDim
    /\ obs.persistent.ok ) =>
    /\ ~obs.initial.list /\ Len(obs.initial.items) = 1
    /\ obs.initial.items[1].shape = obs.persistent.t.shape
    /\ obs.initial.items[1].val = obs.persistent.t.val

\* The batch size and input length the non-persistent construction uses for
\* the last call: the container's, or the input's where those are None.
CallBatch == IF input_spec[1] = NoneDim THEN res.x[1].shape[1] ELSE input_spec[1]
CallLength == IF input_spec[2] = NoneDim THEN Len(res.x) ELSE input_spec[2]

\* The states sub-unit j's specifications resolve to on the running input inp.
Resolved(j, inp) == layer_initial_states(layers[j], j, 1, inp, CallBatch, CallLength)

\* The running input sub-unit j is given: time index 0 of the batch, taken
\* through sub-units 1..j-1, a Cell being stepped once on the states just
\* resolved for it and only its output kept.
RECURSIVE RunningInput(_)
RunningInput(j) ==
  IF j = 1 THEN res.x[1]
  ELSE IF layers[j - 1].rnn
       THEN cell_step(layers[j - 1], j - 1, RunningInput(j - 1),
                      Resolved(j - 1, RunningInput(j - 1))).x
       ELSE layer_call(layers[j - 1], j - 1, RunningInput(j - 1))

\* The resolved states of the Cells among the first n sub-units, in order.
RECURSIVE ResolvedUpTo(_)
ResolvedUpTo(n) ==
  IF n = 0 THEN <<>>
  ELSE ResolvedUpTo(n - 1) \o (IF layers[n].rnn THEN Resolved(n, RunningInput(n)) ELSE <<>>)

\* C18: in the non-persistent construction of the initial states the
\* running input starts as time index 0 of the batch and goes through the
\* sub-units in order; a callable specification of sub-unit j is invoked on
\* what sub-units before j make of the first timestep (a Cell being stepped
\* once on its own fresh initial states, its output kept, its new state
\* dropped); the initial vector holds the resolved specifications, never a
\* state the extra step returned.
C18_RunningInput ==
  (lastOp = "call" /\ ~stateful /\ res.built) =>
    /\ res.init = ResolvedUpTo(Len(layers))
    /\ \A j \in 1..Len(layers) :
         (layers[j].rnn /\ Len(layers[j].states) = 1
            /\ layers[j].states[1].type = "callable" /\ layers[j].states[1].n = 0) =>
           LET p == Len(ResolvedUpTo(j))
           IN /\ res.init[p].val = RunningInput(j).val
              /\ res.init[p].shape = RunningInput(j).shape

\* a Cell with a literal state of ones, then a Cell with a callable state:
\* the callable saw the first Cell's output, and the first Cell's initial
\* state is its literal, not the state its extra step returned
C18_Witness ==
  /\ lastOp = "call" /\ ~stateful /\ res.built
  /\ Len(layers) = 2
  /\ layers[1].rnn /\ layers[1].fn = "acc" /\ layers[1].states[1].type = "numpy"
  /\ layers[2].rnn /\ layers[2].states[1].type = "callable" /\ layers[2].states[1].n = 0
  /\ res.x[1].val = 1
  /\ Len(res.init) = 2
  /\ res.init[1].val = 1
  /\ res.init[2].val = 2

\* The number of states the Cells of a list declare.
DeclaredCount(ls) == Len(Declared(ls))

\* C19: in persistent mode add and pop are all-or-nothing: in every
\* reachable state, also after an add or pop that raised the configuration
\* error, the persistent state vector has one buffer per declared state of
\* each Cell in the list, and a failed add leaves the list as it was.
C19_ListAndVectorAgree ==
  stateful =>
    /\ Len(states.v) = DeclaredCount(layers)
    /\ (lastOp = "add" /\ lastErr # "none") => layers = pre.layers

====
